---- MODULE Spec2Model ----
(***************************************************************************)
(* The LZMA decoder core of lzma-rs: the range decoder (rangecoder.rs),    *)
(* the packet state machine and the chunked driver (lzma.rs).              *)
(*                                                                         *)
(* A u32 register (range, code, a match distance) is kept as a pair        *)
(* <<hi, lo>> of 16-bit halves, value hi * 65536 + lo, so that every       *)
(* 32-bit operation of the source is computed exactly.                     *)
(***************************************************************************)
EXTENDS Integers, Sequences, FiniteSets, TLC

\* ------------------------------------------------------------------ u32
Half == 65536

U32(n) == <<n \div Half, n % Half>>

Zero32 == <<0, 0>>

\* a < b on u32
Lt32(a, b) == a[1] < b[1] \/ (a[1] = b[1] /\ a[2] < b[2])

\* a - b on u32, for b <= a
Sub32(a, b) ==
    IF a[2] >= b[2] THEN <<a[1] - b[1], a[2] - b[2]>>
    ELSE <<a[1] - b[1] - 1, a[2] + Half - b[2]>>

\* a + b, carried into the high half (usize arithmetic: no 32-bit wrap)
Add32(a, b) ==
    <<a[1] + b[1] + ((a[2] + b[2]) \div Half), (a[2] + b[2]) % Half>>

\* (a << 8) ^ byte, truncated to 32 bits
Shl8(a, byte) ==
    <<((a[1] % 256) * 256) + (a[2] \div 256), ((a[2] % 256) * 256) + byte>>

\* a >> 1
Shr1(a) == <<a[1] \div 2, ((a[1] % 2) * 32768) + (a[2] \div 2)>>

RECURSIVE Pow2(_)
Pow2(n) == IF n = 0 THEN 1 ELSE 2 * Pow2(n - 1)

\* bitwise exclusive or of two naturals
RECURSIVE Xor(_, _)
Xor(a, b) ==
    IF a = 0 THEN b
    ELSE IF b = 0 THEN a
    ELSE ((a + b) % 2) + 2 * Xor(a \div 2, b \div 2)

\* bitwise and of two naturals
RECURSIVE BitAnd(_, _)
BitAnd(a, b) ==
    IF a = 0 \/ b = 0 THEN 0
    ELSE ((a % 2) * (b % 2)) + 2 * BitAnd(a \div 2, b \div 2)

Min(a, b) == IF a < b THEN a ELSE b

\* the first n elements of s, and s without them
Take(s, n) == SubSeq(s, 1, n)
Drop(s, n) == SubSeq(s, n + 1, Len(s))

\* ------------------------------------------------------------ constants
MAX_REQUIRED_INPUT == 20

\* the literal-probability capacity the decoder is instantiated with
PROBS_MEM_LIMIT == 8

PROB_INIT == 1024

\* range < 0x0100_0000
BelowTop(r) == r[1] < 256

\* ----------------------------------------------------- decoder storage
\* A probability cell is named <<array, part, row, index>>: the field of
\* DecoderState, the part of a length decoder (choice, low_coder, ...; ""
\* elsewhere), the row of a two-dimensional array (0 elsewhere) and the
\* index in the row.  The arrays are kept as one map of the cells written
\* since the arrays were last filled; every other cell holds prob_fill, the
\* value of that fill (0 by new, 0x400 by reset).
Prob(d, k) == IF k \in DOMAIN d.probs THEN d.probs[k] ELSE d.prob_fill

SetProb(d, k, v) == [d EXCEPT !.probs = (k :> v) @@ @]

NoParams == [set |-> FALSE]

\* DecoderState::new
DecoderNew ==
    [processing_status |-> "Uninitialized",
     params            |-> NoParams,
     partial_input_buf |-> << >>,
     output            |-> << >>,
     dict_size         |-> 0,
     probs             |-> << >>,
     prob_fill         |-> 0,
     state             |-> 0,
     rep               |-> <<Zero32, Zero32, Zero32, Zero32>>]

\* a reset that keeps the parameters
DecoderResetKeeps(d) ==
    [processing_status |-> "Continue",
     params            |-> d.params,
     partial_input_buf |-> << >>,
     output            |-> << >>,
     dict_size         |-> d.dict_size,
     probs             |-> << >>,
     prob_fill         |-> PROB_INIT,
     state             |-> 0,
     rep               |-> <<Zero32, Zero32, Zero32, Zero32>>]

\* DecoderState::reset
DecoderReset(d) ==
    [processing_status |-> "Continue",
     params            |-> NoParams,
     partial_input_buf |-> << >>,
     output            |-> << >>,
     dict_size         |-> d.dict_size,
     probs             |-> << >>,
     prob_fill         |-> PROB_INIT,
     state             |-> 0,
     rep               |-> <<Zero32, Zero32, Zero32, Zero32>>]

\* -------------------------------------------------------- range decoder
\* A range decoder at work on a byte source: d is the decoder state the
\* step mutates, buf the source's bytes and pos how many of them were
\* read.  err is the error that ended the step ("none" while it runs);
\* every operation after an error is skipped, as `?` returns at once.
\* bit, val and dist carry the last results, res the step's result; kind
\* names the packet that was decoded (literal, short_rep, rep_match or
\* match), bits lists the decoded bits and normal tells whether range was
\* at least 0x0100_0000 after each of them.
Machine(d, buf, range, code) ==
    [d |-> d, buf |-> buf, pos |-> 0, range |-> range, code |-> code,
     err |-> "none", bit |-> 0, val |-> 0, dist |-> Zero32,
     res |-> "Continue", kind |-> "none", bits |-> << >>, normal |-> TRUE]

\* RangeDecoder::is_eof, on a cursor over buf
IsEof(m) == m.pos >= Len(m.buf)

\* is_finished_ok that looks at the code register only
IsFinishedOkCode(m) == m.code = Zero32

\* RangeDecoder::is_finished_ok
IsFinishedOk(m) == m.code = Zero32 /\ IsEof(m)

\* the range a bit was left with is noted
Noted(m) == [m EXCEPT !.normal = @ /\ m.range[1] >= 256]

\* normalize that shifts only once range is below 0x0010_0000
NormalizeLate(m) ==
    Noted(IF m.range[1] < 16
          THEN IF IsEof(m)
               THEN [m EXCEPT !.range = Shl8(@, 0), !.err = "eof"]
               ELSE [m EXCEPT !.range = Shl8(@, 0),
                              !.code = Shl8(@, m.buf[m.pos + 1]),
                              !.pos = @ + 1]
          ELSE m)

\* RangeDecoder::normalize, which ends the decoding of every bit
Normalize(m) ==
    Noted(IF BelowTop(m.range)
          THEN IF IsEof(m)
               THEN [m EXCEPT !.range = Shl8(@, 0), !.err = "eof"]
               ELSE [m EXCEPT !.range = Shl8(@, 0),
                              !.code = Shl8(@, m.buf[m.pos + 1]),
                              !.pos = @ + 1]
          ELSE m)

\* (range >> 11) * prob
Bound(range, p) ==
    LET q  == (range[1] * 32) + (range[2] \div 2048)
        qh == q \div Half
        ql == q % Half
        t  == ql * p
    IN <<(qh * p) + (t \div Half), t % Half>>

\* an adaptation towards 0x800 that moves twice as fast
ProbUpFast(p) == p + ((2048 - p) \div 16)

\* decode_bit, line 105: *prob += (0x800 - *prob) >> 5
ProbUp(p) == p + ((2048 - p) \div 32)

\* decode_bit, line 113: *prob -= *prob >> 5
ProbDown(p) == p - (p \div 32)

\* decode_bit that adapts the cell whatever `update` says
DecodeBitAlways(m, k, update) ==
    IF m.err # "none" THEN m
    ELSE LET DecideAlways(p, bound) ==
                 IF Lt32(m.code, bound)
                 THEN Normalize([m EXCEPT
                          !.d = SetProb(@, k, ProbUp(p)),
                          !.range = bound,
                          !.bit = 0,
                          !.bits = Append(@, 0)])
                 ELSE Normalize([m EXCEPT
                          !.d = SetProb(@, k, ProbDown(p)),
                          !.code = Sub32(@, bound),
                          !.range = Sub32(@, bound),
                          !.bit = 1,
                          !.bits = Append(@, 1)])
             WithProbAlways(p) == DecideAlways(p, Bound(m.range, p))
         IN WithProbAlways(Prob(m.d, k))

\* RangeDecoder::decode_bit on the cell k
DecodeBit(m, k, update) ==
    IF m.err # "none" THEN m
    ELSE LET Decide(p, bound) ==
                 IF Lt32(m.code, bound)
                 THEN Normalize([m EXCEPT
                          !.d = IF update
                                THEN SetProb(@, k, ProbUp(p))
                                ELSE @,
                          !.range = bound,
                          !.bit = 0,
                          !.bits = Append(@, 0)])
                 ELSE Normalize([m EXCEPT
                          !.d = IF update
                                THEN SetProb(@, k, ProbDown(p))
                                ELSE @,
                          !.code = Sub32(@, bound),
                          !.range = Sub32(@, bound),
                          !.bit = 1,
                          !.bits = Append(@, 1)])
             WithProb(p) == Decide(p, Bound(m.range, p))
         IN WithProb(Prob(m.d, k))

\* RangeDecoder::get_bit
GetBit(m) ==
    IF m.err # "none" THEN m
    ELSE LET Shifted(r, b) ==
                 Normalize([m EXCEPT
                     !.range = r,
                     !.code = IF b = 1 THEN Sub32(@, r) ELSE @,
                     !.bit = b,
                     !.bits = Append(@, b)])
             Halved(r) == Shifted(r, IF Lt32(m.code, r) THEN 0 ELSE 1)
         IN Halved(Shr1(m.range))

\* the loop of RangeDecoder::get: count more bits shifted into val
RECURSIVE GetLoop(_, _)
GetLoop(m, count) ==
    IF m.err # "none" \/ count = 0 THEN m
    ELSE IF count = 1
    THEN LET Shift(m1) ==
                 IF m1.err # "none" THEN m1
                 ELSE [m1 EXCEPT !.val = Xor(2 * m.val, m1.bit)]
         IN Shift(GetBit(m))
    ELSE GetLoop(GetLoop(m, count \div 2), count - (count \div 2))

\* get that reads four bits more than it was asked for
GetMore(m, count) == GetLoop([m EXCEPT !.val = 0], count + 4)

\* RangeDecoder::get: count direct bits, most significant first, in val
Get(m, count) == GetLoop([m EXCEPT !.val = 0], count)

\* RangeDecoder::parse_bit_tree over the cells of the tree t = <<array, part, row>>
RECURSIVE BitTreeLoop(_, _, _, _, _, _)
BitTreeLoop(m, t, num_bits, i, tmp, update) ==
    IF m.err # "none" THEN m
    ELSE IF i = num_bits THEN [m EXCEPT !.val = tmp - Pow2(num_bits)]
    ELSE LET Down(m1) ==
                 BitTreeLoop(m1, t, num_bits, i + 1, Xor(2 * tmp, m1.bit),
                             update)
         IN Down(DecodeBit(m, <<t[1], t[2], t[3], tmp>>, update))

ParseBitTree(m, t, num_bits, update) ==
    BitTreeLoop(m, t, num_bits, 0, 1, update)

\* RangeDecoder::parse_reverse_bit_tree over the cells offset + tmp of t
RECURSIVE ReverseLoop(_, _, _, _, _, _, _, _)
ReverseLoop(m, t, num_bits, offset, i, tmp, result, update) ==
    IF m.err # "none" THEN m
    ELSE IF i = num_bits THEN [m EXCEPT !.val = result]
    ELSE LET DownReverse(m1) ==
                 ReverseLoop(m1, t, num_bits, offset, i + 1,
                             Xor(2 * tmp, m1.bit),
                             Xor(result, m1.bit * Pow2(i)), update)
         IN DownReverse(
                DecodeBit(m, <<t[1], t[2], t[3], offset + tmp>>, update))

ParseReverseBitTree(m, t, num_bits, offset, update) ==
    ReverseLoop(m, t, num_bits, offset, 0, 1, 0, update)

\* AbstractLenDecoder::decode; ld is "len_decoder" or "rep_len_decoder"
LenDecode(m, ld, pos_state, update) ==
    LET Plus(m3, n) ==
            IF m3.err # "none" THEN m3 ELSE [m3 EXCEPT !.val = @ + n]
        AfterChoice2(m2) ==
            IF m2.err # "none" THEN m2
            ELSE IF m2.bit = 0
            THEN Plus(ParseBitTree(m2, <<ld, "mid_coder", pos_state>>, 3,
                                   update), 8)
            ELSE Plus(ParseBitTree(m2, <<ld, "high_coder", 0>>, 8, update),
                      16)
        AfterChoice(m1) ==
            IF m1.err # "none" THEN m1
            ELSE IF m1.bit = 0
            THEN ParseBitTree(m1, <<ld, "low_coder", pos_state>>, 3, update)
            ELSE AfterChoice2(DecodeBit(m1, <<ld, "choice2", 0, 0>>, update))
    IN AfterChoice(DecodeBit(m, <<ld, "choice", 0, 0>>, update))

\* --------------------------------------------------------- output window
\* LzBuffer: output is every byte appended so far, in order; a byte at
\* distance dist back is there when dist is within the dictionary and
\* within the output.
ToInt(a) == (a[1] * Half) + a[2]

\* dist > n, for a u32-or-wider dist and a small n
Exceeds(dist, n) == dist[1] >= 32768 \/ ToInt(dist) > n

\* LzBuffer::last_or
LastOr(d, default) ==
    IF Len(d.output) = 0 THEN default ELSE d.output[Len(d.output)]

\* whether LzBuffer::last_n and LzBuffer::append_lz accept dist
DistOk(d, dist) ==
    /\ ~Exceeds(dist, d.dict_size)
    /\ ~Exceeds(dist, Len(d.output))
    /\ ToInt(dist) >= 1

\* LzBuffer::last_n, for an accepted dist
LastN(d, dist) == d.output[Len(d.output) - ToInt(dist) + 1]

\* LzBuffer::append_literal
AppendLiteral(d, byte) == [d EXCEPT !.output = Append(@, byte)]

\* len bytes copied one by one from k back, the copy reading what it has
\* just written
RECURSIVE CopyBack(_, _, _)
CopyBack(output, len, k) ==
    IF len = 0 \/ Len(output) < k THEN output
    ELSE IF len = 1 THEN Append(output, output[Len(output) - k + 1])
    ELSE CopyBack(CopyBack(output, len \div 2, k), len - (len \div 2), k)

\* LzBuffer::append_lz, for an accepted dist
AppendLz(d, len, dist) ==
    [d EXCEPT !.output = CopyBack(@, len, ToInt(dist))]

\* ------------------------------------------------------- packet decoding
Inc32(a) == Add32(a, <<0, 1>>)

EOS_DISTANCE == <<65535, 65535>>

\* v << n as a u32-or-wider value, for the v < 4 and n <= 30 of decode_distance
ShiftLeft(v, n) == IF n >= 16 THEN <<v * Pow2(n - 16), 0>> ELSE U32(v * Pow2(n))

\* a matched cell taken from the plain third of the row
MatchedCellFlat(match_bit, result) == (match_bit * 256) + result

\* decode_literal, line 547: ((1 + match_bit) << 8) + result
MatchedCell(match_bit, result) == ((1 + match_bit) * 256) + result

\* the matched loop of decode_literal
RECURSIVE MatchedLoop(_, _, _, _, _)
MatchedLoop(m, lit_state, match_byte, result, update) ==
    IF m.err # "none" THEN m
    ELSE IF result >= 256 THEN [m EXCEPT !.val = result]
    ELSE LET Compare(m1, match_bit, r1) ==
                 IF m1.err # "none" THEN m1
                 ELSE IF match_bit # m1.bit THEN [m1 EXCEPT !.val = r1]
                 ELSE MatchedLoop(m1, lit_state, 2 * match_byte, r1, update)
             Decoded(m1, match_bit) ==
                 Compare(m1, match_bit, Xor(2 * result, m1.bit))
             WithMatchBit(match_bit) ==
                 Decoded(DecodeBit(m, <<"literal_probs", "", lit_state,
                                        MatchedCell(match_bit, result)>>,
                                   update),
                         match_bit)
         IN WithMatchBit((match_byte \div 128) % 2)

\* the plain loop of decode_literal
RECURSIVE PlainLoop(_, _, _, _)
PlainLoop(m, lit_state, result, update) ==
    IF m.err # "none" THEN m
    ELSE IF result >= 256 THEN [m EXCEPT !.val = result]
    ELSE LET DownPlain(m1) ==
                 PlainLoop(m1, lit_state, Xor(2 * result, m1.bit), update)
         IN DownPlain(DecodeBit(m, <<"literal_probs", "", lit_state, result>>,
                                update))

LitState(d) ==
    LET prev_byte == LastOr(d, 0)
    IN ((Len(d.output) % Pow2(d.params.lp)) * Pow2(d.params.lc))
         + (prev_byte \div Pow2(8 - d.params.lc))

\* DecoderState::decode_literal: the byte in val
DecodeLiteral(m, update) ==
    LET Byte(m2) ==
            IF m2.err # "none" THEN m2
            ELSE [m2 EXCEPT !.val = (@ - 256) % 256]
        Plain(m1, lit_state) ==
            IF m1.err # "none" THEN m1
            ELSE PlainLoop(m1, lit_state, m1.val, update)
        Matched(lit_state, dist) ==
            IF m.d.state >= 7
            THEN IF DistOk(m.d, dist)
                 THEN MatchedLoop(m, lit_state, LastN(m.d, dist), 1, update)
                 ELSE [m EXCEPT !.err = "lz"]
            ELSE [m EXCEPT !.val = 1]
        InRow(lit_state) ==
            Byte(Plain(Matched(lit_state, Inc32(m.d.rep[1])), lit_state))
    IN InRow(LitState(m.d))

\* a distance base that drops the low bit of pos_slot
DistanceBaseEven(pos_slot, num_direct_bits) == ShiftLeft(2, num_direct_bits)

\* decode_distance, line 572: (2 ^ (pos_slot & 1)) << num_direct_bits
DistanceBase(pos_slot, num_direct_bits) ==
    ShiftLeft(Xor(2, BitAnd(pos_slot, 1)), num_direct_bits)

\* an offset into pos_decoders that is the distance base itself
ReverseOffsetBare(result, pos_slot) == ToInt(result)

\* decode_distance, line 578: result - pos_slot
ReverseOffset(result, pos_slot) == ToInt(result) - pos_slot

\* DecoderState::decode_distance: the distance in dist
DecodeDistance(m, length, update) ==
    LET Low(m2, result) ==
            IF m2.err # "none" THEN m2
            ELSE [m2 EXCEPT !.dist = Add32(result, U32(m2.val))]
        Aligned(m3, result, direct) ==
            IF m3.err # "none" THEN m3
            ELSE [m3 EXCEPT !.dist =
                     Add32(Add32(result, U32(direct * 16)), U32(m3.val))]
        High(m2, result) ==
            Aligned(ParseReverseBitTree(m2, <<"align_decoder", "", 0>>, 4, 0,
                                        update),
                    result, m2.val)
        From(m1, pos_slot, num_direct_bits, result) ==
            IF pos_slot < 14
            THEN Low(ParseReverseBitTree(m1, <<"pos_decoders", "", 0>>,
                         num_direct_bits, ReverseOffset(result, pos_slot),
                         update),
                     result)
            ELSE High(Get(m1, num_direct_bits - 4), result)
        Wide(m1, pos_slot, num_direct_bits) ==
            From(m1, pos_slot, num_direct_bits,
                 DistanceBase(pos_slot, num_direct_bits))
        Slot(m1, pos_slot) ==
            IF m1.err # "none" THEN m1
            ELSE IF pos_slot < 4 THEN [m1 EXCEPT !.dist = U32(pos_slot)]
            ELSE Wide(m1, pos_slot, (pos_slot \div 2) - 1)
        AfterSlot(m1) == Slot(m1, m1.val)
    IN AfterSlot(ParseBitTree(m, <<"pos_slot_decoder", "", Min(length, 3)>>,
                              6, update))

\* a literal table without the row for the states from 10 up
StateAfterLiteralFlat(state) == IF state < 4 THEN 0 ELSE state - 3

\* the state after a literal
StateAfterLiteral(state) ==
    IF state < 4 THEN 0 ELSE IF state < 10 THEN state - 3 ELSE state - 6

\* a rep-idx match that exchanges rep[idx] and rep[0]
RotateRepSwap(rep, idx) ==
    IF idx = 1 THEN <<rep[2], rep[1], rep[3], rep[4]>>
    ELSE IF idx = 2 THEN <<rep[3], rep[2], rep[1], rep[4]>>
    ELSE <<rep[4], rep[2], rep[3], rep[1]>>

\* the rotation of rep by a rep-idx match
RotateRep(rep, idx) ==
    IF idx = 1 THEN <<rep[2], rep[1], rep[3], rep[4]>>
    ELSE IF idx = 2 THEN <<rep[3], rep[1], rep[2], rep[4]>>
    ELSE <<rep[4], rep[1], rep[2], rep[3]>>

\* the rotation of rep by a new-distance match, before rep[0] is set
ShiftRep(rep) == <<rep[1], rep[1], rep[2], rep[3]>>

\* a copy of the decoded length, without the 2 the state machine adds
MatchCopyBare(m, len, update) ==
    IF m.err # "none" \/ ~update THEN m
    ELSE LET dist == Inc32(m.d.rep[1])
         IN IF DistOk(m.d, dist)
            THEN [m EXCEPT !.d = AppendLz(@, len, dist)]
            ELSE [m EXCEPT !.err = "lz"]

\* process_next_inner, lines 364-371: the copy that ends a match
MatchCopy(m, len, update) ==
    IF m.err # "none" \/ ~update THEN m
    ELSE LET dist == Inc32(m.d.rep[1])
         IN IF DistOk(m.d, dist)
            THEN [m EXCEPT !.d = AppendLz(@, len + 2, dist)]
            ELSE [m EXCEPT !.err = "lz"]

\* process_next_inner, lines 266-287: a literal packet
LiteralPacket(m, update) ==
    LET Emit(m1) ==
            IF m1.err # "none" THEN m1
            ELSE IF update
            THEN [m1 EXCEPT !.d = [AppendLiteral(@, m1.val) EXCEPT
                                      !.state = StateAfterLiteral(@)],
                            !.kind = "literal"]
            ELSE [m1 EXCEPT !.kind = "literal"]
    IN Emit(DecodeLiteral(m, update))

\* process_next_inner, lines 300-306: a short rep
ShortRep(m, update) ==
    IF ~update THEN [m EXCEPT !.kind = "short_rep"]
    ELSE LET d1 == [m.d EXCEPT !.state = IF @ < 7 THEN 9 ELSE 11]
             dist == Inc32(d1.rep[1])
         IN IF DistOk(d1, dist)
            THEN [m EXCEPT !.d = AppendLz(d1, 1, dist), !.kind = "short_rep"]
            ELSE [m EXCEPT !.d = d1, !.err = "lz", !.kind = "short_rep"]

\* process_next_inner, lines 328-333 and 364-371: the length and the copy
\* of a rep match
RepLength(m, pos_state, update) ==
    LET Copy(m1) ==
            MatchCopy([m1 EXCEPT
                          !.d.state = IF m1.err = "none" /\ update
                                      THEN IF @ < 7 THEN 8 ELSE 11
                                      ELSE @,
                          !.kind = "rep_match"],
                      m1.val, update)
    IN Copy(LenDecode(m, "rep_len_decoder", pos_state, update))

\* process_next_inner, lines 309-326: the choice of rep[idx], idx in 1..3
RepIndex(m, update) ==
    LET Rotate(m2, idx) ==
            IF m2.err # "none" THEN m2
            ELSE IF update
            THEN [m2 EXCEPT !.d.rep = RotateRep(@, idx), !.val = idx]
            ELSE [m2 EXCEPT !.val = idx]
        AfterG2(m2) == Rotate(m2, IF m2.bit = 0 THEN 2 ELSE 3)
        AfterG1(m1) ==
            IF m1.err # "none" \/ m1.bit = 0 THEN Rotate(m1, 1)
            ELSE AfterG2(DecodeBit(m1, <<"is_rep_g2", "", 0, m.d.state>>,
                                   update))
    IN AfterG1(DecodeBit(m, <<"is_rep_g1", "", 0, m.d.state>>, update))

\* process_next_inner, lines 292-333: a packet whose distance is repeated
RepPacket(m, pos_state, update) ==
    LET Indexed(m2) ==
            IF m2.err # "none" THEN m2 ELSE RepLength(m2, pos_state, update)
        After0Long(m2) ==
            IF m2.err # "none" THEN m2
            ELSE IF m2.bit = 0 THEN ShortRep(m2, update)
            ELSE RepLength(m2, pos_state, update)
        AfterG0(m1) ==
            IF m1.err # "none" THEN m1
            ELSE IF m1.bit = 0
            THEN After0Long(DecodeBit(m1, <<"is_rep_0long", "", 0,
                                            (m.d.state * 16) + pos_state>>,
                                      update))
            ELSE Indexed(RepIndex(m1, update))
    IN AfterG0(DecodeBit(m, <<"is_rep_g0", "", 0, m.d.state>>, update))

\* a match whose distance is decoded only when the step is applied
MatchPacketDry(m, pos_state, update) ==
    LET MarkerDry(m5) ==
            IF IsFinishedOk(m5)
            THEN [m5 EXCEPT !.d.processing_status = "Finished",
                            !.res = "Finished"]
            ELSE [m5 EXCEPT !.err = "eos"]
        FoundDry(m5, len) ==
            IF m5.dist = EOS_DISTANCE THEN MarkerDry(m5)
            ELSE MatchCopy(m5, len, update)
        AfterDistanceDry(m4, len) ==
            IF m4.err # "none" THEN m4
            ELSE IF ~update THEN [m4 EXCEPT !.kind = "match"]
            ELSE FoundDry([m4 EXCEPT !.d.rep[1] = m4.dist, !.kind = "match"],
                       len)
        AfterLengthDry(m2) ==
            AfterDistanceDry(
                IF update
                THEN DecodeDistance(
                         IF m2.err = "none"
                         THEN [m2 EXCEPT !.d.state = IF @ < 7 THEN 7 ELSE 10]
                         ELSE m2,
                         m2.val, update)
                ELSE m2,
                m2.val)
    IN AfterLengthDry(
           LenDecode(IF update THEN [m EXCEPT !.d.rep = ShiftRep(@)] ELSE m,
                     "len_decoder", pos_state, update))

\* a marker that ends the step and leaves the processing status as it was
MarkerSilent(m) ==
    IF IsFinishedOk(m)
    THEN [m EXCEPT !.res = "Finished"]
    ELSE [m EXCEPT !.err = "eos"]

\* process_next_inner, lines 353-360: the end-of-stream marker was decoded
Marker(m) ==
    IF IsFinishedOk(m)
    THEN [m EXCEPT !.d.processing_status = "Finished", !.res = "Finished"]
    ELSE [m EXCEPT !.err = "eos"]

\* process_next_inner, lines 335-371: a match with a new distance
MatchPacket(m, pos_state, update) ==
    LET Found(m5, len) ==
            IF m5.dist = EOS_DISTANCE THEN Marker(m5)
            ELSE MatchCopy(m5, len, update)
        AfterDistance(m4, len) ==
            IF m4.err # "none" THEN m4
            ELSE IF ~update THEN [m4 EXCEPT !.kind = "match"]
            ELSE Found([m4 EXCEPT !.d.rep[1] = m4.dist, !.kind = "match"],
                       len)
        AfterLength(m2) ==
            AfterDistance(
                DecodeDistance(
                    IF m2.err = "none" /\ update
                    THEN [m2 EXCEPT !.d.state = IF @ < 7 THEN 7 ELSE 10]
                    ELSE m2,
                    m2.val, update),
                m2.val)
    IN AfterLength(
           LenDecode(IF update THEN [m EXCEPT !.d.rep = ShiftRep(@)] ELSE m,
                     "len_decoder", pos_state, update))

\* a pos_state that keeps every bit of the output length
PosStateWhole(d) == Len(d.output)

\* process_next_inner, line 264: output.len() & ((1 << pb) - 1)
PosState(d) == Len(d.output) % Pow2(d.params.pb)

\* DecoderState::process_next_inner
ProcessNextInner(m, update) ==
    LET Lz(m2, pos_state) ==
            IF m2.err # "none" THEN m2
            ELSE IF m2.bit = 1 THEN RepPacket(m2, pos_state, update)
            ELSE MatchPacket(m2, pos_state, update)
        Packet(m1, pos_state) ==
            IF m1.err # "none" THEN m1
            ELSE IF m1.bit = 0 THEN LiteralPacket(m1, update)
            ELSE Lz(DecodeBit(m1, <<"is_rep", "", 0, m.d.state>>, update),
                    pos_state)
        At(pos_state) ==
            Packet(DecodeBit(m, <<"is_match", "", 0,
                                  (m.d.state * 16) + pos_state>>, update),
                   pos_state)
    IN At(PosState(m.d))

\* ------------------------------------------------------------ the driver
\* s = [dec, rc, avail, call]: the decoder state, the caller's range
\* decoder (its registers; its stream is a cursor over avail, the input
\* bytes that arrived and were not read yet) and the process_mode call in
\* progress.
NoRun ==
    [err |-> "none", pos |-> 0, bits |-> << >>, kind |-> "none",
     eos |-> FALSE, normal |-> TRUE, dist |-> Zero32]

\* what a step did, kept for the properties: its error, the bytes it read,
\* the bits it decoded, the packet it found, whether that packet is the
\* end-of-stream marker, whether range stayed normal and the distance
\* decode_distance returned
RunOf(m) ==
    [err |-> m.err, pos |-> m.pos, bits |-> m.bits, kind |-> m.kind,
     eos |-> m.kind = "match" /\ m.dist = EOS_DISTANCE,
     normal |-> m.normal, dist |-> m.dist]

IdleCall ==
    [pc |-> "idle", api |-> "new", mode |-> "none", ret |-> "none",
     path |-> "none", brk |-> "none", via |-> "none",
     try |-> NoRun, step |-> NoRun,
     status0 |-> "Uninitialized", out0 |-> 0, in0 |-> 0, packets |-> 0,
     arg |-> NoParams, needed |-> 0, available |-> 0]

Return(s, ret, via) ==
    [s EXCEPT !.call.pc = "idle", !.call.ret = ret, !.call.via = via]

Panic(s, api) ==
    [s EXCEPT !.call = [IdleCall EXCEPT !.pc = "panicked", !.api = api,
                                        !.ret = "panic"]]

\* set_params that sizes the dictionary before it looks at lc and lp
SetParamsInstalls(s, p) ==
    IF s.dec.processing_status = "Uninitialized" THEN Panic(s, "set_params")
    ELSE IF Pow2(p.lc + p.lp) > PROBS_MEM_LIMIT
    THEN [s EXCEPT !.dec.dict_size = p.dict_size,
                   !.call = [IdleCall EXCEPT !.api = "set_params",
                                 !.arg = p,
                                 !.ret = "ProbabilitiesBufferTooSmall",
                                 !.needed = Pow2(p.lc + p.lp),
                                 !.available = PROBS_MEM_LIMIT]]
    ELSE [s EXCEPT !.dec.dict_size = p.dict_size,
                   !.dec.params = p,
                   !.call = [IdleCall EXCEPT !.api = "set_params",
                                             !.arg = p, !.ret = "Ok"]]

\* DecoderState::set_params; the call keeps its argument and the fields
\* of the error it returned
SetParams(s, p) ==
    IF s.dec.processing_status = "Uninitialized" THEN Panic(s, "set_params")
    ELSE IF Pow2(p.lc + p.lp) > PROBS_MEM_LIMIT
    THEN [s EXCEPT !.call = [IdleCall EXCEPT !.api = "set_params",
                                 !.arg = p,
                                 !.ret = "ProbabilitiesBufferTooSmall",
                                 !.needed = Pow2(p.lc + p.lp),
                                 !.available = PROBS_MEM_LIMIT]]
    ELSE [s EXCEPT !.dec.dict_size = p.dict_size,
                   !.dec.params = p,
                   !.call = [IdleCall EXCEPT !.api = "set_params",
                                             !.arg = p, !.ret = "Ok"]]

\* read_partial_input_buf that takes every byte the stream holds
ReadPartialInputBufAll(s) ==
    [s EXCEPT !.dec.partial_input_buf = @ \o s.avail, !.avail = << >>]

\* DecoderState::read_partial_input_buf: the residual buffer is filled
\* from the stream as far as its MAX_REQUIRED_INPUT bytes allow
ReadPartialInputBuf(s) ==
    LET start == Len(s.dec.partial_input_buf)
        bytes_read == Min(MAX_REQUIRED_INPUT - start, Len(s.avail))
    IN [s EXCEPT !.dec.partial_input_buf = @ \o Take(s.avail, bytes_read),
                 !.avail = Drop(@, bytes_read)]

\* process_mode, lines 420-428: the call is entered
EnterProcessMode(s, mode) ==
    LET api == IF mode = "Finish" THEN "process" ELSE "process_stream"
    IN IF s.dec.processing_status = "Uninitialized" \/ ~s.dec.params.set
       THEN Panic(s, api)
       ELSE [s EXCEPT !.call =
                [IdleCall EXCEPT !.pc = "loop", !.api = api, !.mode = mode,
                    !.status0 = s.dec.processing_status,
                    !.out0 = Len(s.dec.output),
                    !.in0 = Len(s.avail) + Len(s.dec.partial_input_buf)]]

\* a loop that stops only once the output is longer than unpacked_size
LoopBreaksLate(s) ==
    IF s.dec.params.unpacked_size.known
    THEN Len(s.dec.output) > s.dec.params.unpacked_size.size
    ELSE IF s.call.mode = "Partial"
    THEN s.avail = << >> /\ s.dec.partial_input_buf = << >>
    ELSE /\ s.rc.code = Zero32
         /\ s.avail = << >>
         /\ s.dec.partial_input_buf = << >>

\* process_mode, lines 430-443: whether the loop ends here
LoopBreaks(s) ==
    IF s.dec.params.unpacked_size.known
    THEN Len(s.dec.output) >= s.dec.params.unpacked_size.size
    ELSE IF s.call.mode = "Partial"
    THEN s.avail = << >> /\ s.dec.partial_input_buf = << >>
    ELSE /\ s.rc.code = Zero32
         /\ s.avail = << >>
         /\ s.dec.partial_input_buf = << >>

\* process_mode, lines 449-451 and 489-490: whether the step is tried first
MustTry(s, buffered) ==
    s.call.mode = "Partial" /\ buffered < MAX_REQUIRED_INPUT

\* process_mode, lines 429-451 and 487-490: the head of one iteration
LoopHead(s) ==
    IF LoopBreaks(s)
    THEN [s EXCEPT !.call.pc = "end",
             !.call.brk = IF s.dec.params.unpacked_size.known
                          THEN "size" ELSE "drained"]
    ELSE IF Len(s.dec.partial_input_buf) > 0
    THEN LET s1 == ReadPartialInputBuf(s)
         IN [s1 EXCEPT !.call.path = "residual",
                !.call.try = NoRun, !.call.step = NoRun,
                !.call.pc = IF MustTry(s1, Len(s1.dec.partial_input_buf))
                            THEN "try" ELSE "step"]
    ELSE [s EXCEPT !.call.path = "live",
             !.call.try = NoRun, !.call.step = NoRun,
             !.call.pc = IF MustTry(s, Len(s.avail)) THEN "try" ELSE "step"]

\* the bytes the step of this iteration runs on
StepBuf(s) ==
    IF s.call.path = "residual" THEN s.dec.partial_input_buf ELSE s.avail

\* DecoderState::try_process_next
TryProcessNext(s) ==
    LET Tried(m) ==
            [s EXCEPT !.dec = m.d, !.call.try = RunOf(m), !.call.pc = "tried"]
    IN Tried(ProcessNextInner(
                 Machine(s.dec, StepBuf(s), s.rc.range, s.rc.code), FALSE))

\* a failed trial that starts the iteration again
AfterTrySpins(s) ==
    IF s.call.try.err # "none"
    THEN [s EXCEPT !.call.pc = "loop"]
    ELSE [s EXCEPT !.call.pc = "step"]

\* process_mode, lines 459-462 and 493-496: the outcome of the trial
AfterTry(s) ==
    IF s.call.try.err # "none"
    THEN IF s.call.path = "residual"
         THEN Return(s, "Ok", "need_input")
         ELSE Return(ReadPartialInputBuf(s), "Ok", "need_input")
    ELSE [s EXCEPT !.call.pc = "step"]

\* a residual buffer that keeps the bytes the step consumed
UnconsumedAll(buf, pos) == buf

\* process_mode, lines 477-482: the unconsumed suffix of the residual
\* buffer is moved to its front
Unconsumed(buf, pos) == Drop(buf, pos)

\* a step that, run on the residual buffer, leaves the caller's range
\* decoder as it was
ProcessNextStale(s) ==
    LET OutcomeStale(m, s2) ==
            IF m.err # "none" THEN Return(s2, m.err, "error")
            ELSE IF m.res = "Finished"
            THEN [s2 EXCEPT !.call.pc = "end", !.call.brk = "finished",
                            !.call.packets = @ + 1]
            ELSE [s2 EXCEPT !.call.pc = "loop", !.call.packets = @ + 1]
        SteppedStale(m) ==
            OutcomeStale(m,
                IF s.call.path = "residual"
                THEN IF m.err # "none"
                     THEN [s EXCEPT !.dec = m.d, !.call.step = RunOf(m)]
                     ELSE [s EXCEPT
                              !.dec = [m.d EXCEPT
                                        !.partial_input_buf =
                                            Unconsumed(@, m.pos)],
                              !.call.step = RunOf(m)]
                ELSE [s EXCEPT !.dec = m.d, !.call.step = RunOf(m),
                         !.rc.range = m.range, !.rc.code = m.code,
                         !.avail = Drop(@, m.pos)])
    IN SteppedStale(ProcessNextInner(
                   Machine(s.dec, StepBuf(s), s.rc.range, s.rc.code), TRUE))

\* process_mode, lines 464-486 and 498-500: the step is run
ProcessNext(s) ==
    LET Outcome(m, s2) ==
            IF m.err # "none" THEN Return(s2, m.err, "error")
            ELSE IF m.res = "Finished"
            THEN [s2 EXCEPT !.call.pc = "end", !.call.brk = "finished",
                            !.call.packets = @ + 1]
            ELSE [s2 EXCEPT !.call.pc = "loop", !.call.packets = @ + 1]
        Stepped(m) ==
            Outcome(m,
                IF s.call.path = "residual"
                THEN IF m.err # "none"
                     THEN [s EXCEPT !.dec = m.d, !.call.step = RunOf(m)]
                     ELSE [s EXCEPT
                              !.dec = [m.d EXCEPT
                                        !.partial_input_buf =
                                            Unconsumed(@, m.pos)],
                              !.call.step = RunOf(m),
                              !.rc.range = m.range, !.rc.code = m.code]
                ELSE [s EXCEPT !.dec = m.d, !.call.step = RunOf(m),
                         !.rc.range = m.range, !.rc.code = m.code,
                         !.avail = Drop(@, m.pos)])
    IN Stepped(ProcessNextInner(
                   Machine(s.dec, StepBuf(s), s.rc.range, s.rc.code), TRUE))

\* an epilogue that objects only to an output shorter than unpacked_size
EpilogueShort(s) ==
    IF /\ s.dec.params.unpacked_size.known
       /\ s.call.mode = "Finish"
       /\ s.dec.params.unpacked_size.size > Len(s.dec.output)
    THEN Return(s, "size", "end")
    ELSE Return(s, "Ok", "end")

\* process_mode, lines 504-516: the check that ends the call
Epilogue(s) ==
    IF /\ s.dec.params.unpacked_size.known
       /\ s.call.mode = "Finish"
       /\ s.dec.params.unpacked_size.size # Len(s.dec.output)
    THEN Return(s, "size", "end")
    ELSE Return(s, "Ok", "end")

\* one step of the call in progress
DriverStep(s) ==
    CASE s.call.pc = "loop"  -> LoopHead(s)
      [] s.call.pc = "try"   -> TryProcessNext(s)
      [] s.call.pc = "tried" -> AfterTry(s)
      [] s.call.pc = "step"  -> ProcessNext(s)
      [] s.call.pc = "end"   -> Epilogue(s)

\* the steps one call may take before it returns
MaxSteps == 64

\* the call run for at most n steps, or to its return
RECURSIVE RunFor(_, _)
RunFor(s, n) ==
    CASE s.call.pc \in {"idle", "panicked"} -> s
      [] n = 1 -> DriverStep(s)
      [] OTHER -> RunFor(RunFor(s, n \div 2), n - (n \div 2))

\* the call run to its return
RunCall(s) == RunFor(s, MaxSteps)

\* RangeDecoder::new on a stream that holds at least five bytes
RangeDecoderNew(stream) ==
    [made |-> TRUE, range |-> <<65535, 65535>>,
     code |-> <<(stream[2] * 256) + stream[3], (stream[4] * 256) + stream[5]>>]

NoRangeDecoder == [made |-> FALSE, range |-> Zero32, code |-> Zero32]

\* a decoder made, reset and given the parameters p, with a range decoder
\* made on the stream inp
Fresh(inp, p) ==
    SetParams([dec |-> DecoderReset(DecoderNew), rc |-> RangeDecoderNew(inp),
               avail |-> Drop(inp, 5), call |-> IdleCall], p)

\* one process call (Finish mode) of a fresh decoder on the whole input
FinishRun(inp, p) == RunCall(EnterProcessMode(Fresh(inp, p), "Finish"))

\* --------------------------------------------------------------- inputs
\* Arithmetic payloads (the padding byte first), built packet by packet:
\* the end-of-stream marker alone; 'A' and the marker; 'A', a rep match of
\* length 3 and the marker; "hello" (with a short rep and a matched
\* literal) and the marker; 'A' and a short rep, no marker; 'A' and a rep
\* match of length 3, no marker; a match as the first packet; the marker
\* with a byte after it; zero bytes only; and a longer stream of literals,
\* matches, rep-1, rep-2 and rep-3 matches and the marker.
InEos      == <<0, 131, 255, 251, 255, 255, 192, 0, 0, 0>>
InA        == <<0, 32, 193, 251, 255, 255, 255, 224, 0, 0, 0>>
InARep     == <<0, 32, 232, 189, 255, 255, 255, 255, 224, 0, 0, 0>>
InHello    == <<0, 52, 25, 73, 238, 142, 104, 33, 255, 255, 255, 185, 224,
                0, 0>>
InAShort   == <<0, 32, 223, 252, 0, 0>>
InARepOnly == <<0, 32, 232, 124, 0, 0, 0>>
InMatch    == <<0, 127, 255, 252, 0, 0>>
InEosMore  == <<0, 131, 255, 251, 255, 255, 192, 0, 0, 0, 0>>
InZeros    == <<0, 0, 0, 0, 0, 0, 0>>
InLong     == <<0, 48, 152, 136, 152, 62, 209, 110, 103, 185, 49, 104, 204,
                252, 223, 189, 12, 71, 250, 102, 85, 206, 126, 51, 170, 17,
                30, 127, 63, 255, 193, 209, 64, 0>>

Inputs ==
    {InEos, InA, InARep, InHello, InAShort, InARepOnly, InMatch, InEosMore,
     InZeros, InLong}

Unknown == [known |-> FALSE, size |-> 0]
Known(n) == [known |-> TRUE, size |-> n]

Params(lc, lp, pb, unpacked_size) ==
    [set |-> TRUE, lc |-> lc, lp |-> lp, pb |-> pb, dict_size |-> 4096,
     unpacked_size |-> unpacked_size]

\* the parameters a caller may install; the last needs 16 literal rows
ParamChoices ==
    {Params(3, 0, 2, Unknown), Params(3, 0, 2, Known(2)),
     Params(3, 0, 2, Known(5)), Params(1, 2, 4, Unknown),
     Params(4, 0, 2, Unknown)}

\* ---------------------------------------------------------------- bounds
\* reset calls in one behaviour
MaxResets == 2
\* process calls made after a call returned an error
MaxReuse == 1

\* ----------------------------------------------------------------- state
VARIABLES
    input,  \* the whole payload
    rest,   \* its bytes that have not arrived yet
    avail,  \* the bytes that arrived and were not read from the stream
    dec,    \* the DecoderState
    rc,     \* the caller's RangeDecoder
    call,   \* the API call in progress or the last one
    hist    \* what happened since the decoder was made

vars == <<input, rest, avail, dec, rc, call, hist>>

Sys == [dec |-> dec, rc |-> rc, avail |-> avail, call |-> call]

Becomes(s) ==
    /\ dec' = s.dec
    /\ rc' = s.rc
    /\ avail' = s.avail
    /\ call' = s.call

Init ==
    /\ input \in Inputs
    /\ rest = input
    /\ avail = << >>
    /\ dec = DecoderNew
    /\ rc = NoRangeDecoder
    /\ call = IdleCall
    /\ hist = [resets |-> 0, finish |-> FALSE, errors |-> FALSE,
               reuse |-> 0, fed |-> FALSE, residual |-> FALSE,
               consumed |-> << >>]

Idle == call.pc = "idle"

\* bytes arrive on the stream
Feed ==
    /\ Idle
    /\ ~hist.errors
    /\ \E n \in 1..Len(rest) :
          /\ avail' = avail \o Take(rest, n)
          /\ rest' = Drop(rest, n)
    /\ hist' = [hist EXCEPT !.fed = TRUE]
    /\ UNCHANGED <<input, dec, rc, call>>

\* the caller constructs its range decoder
NewRangeDecoder ==
    /\ Idle
    /\ ~rc.made
    /\ Len(avail) >= 5
    /\ rc' = RangeDecoderNew(avail)
    /\ avail' = Drop(avail, 5)
    /\ hist' = [hist EXCEPT !.consumed = @ \o Take(avail, 5)]
    /\ UNCHANGED <<input, rest, dec, call>>

\* the bytes that were read from the stream
Taken == Take(input, Len(input) - Len(rest) - Len(avail))

\* the caller resets a decoder that is new or has finished its stream; the
\* history starts anew where the stream stands
Reset ==
    /\ Idle
    /\ dec.processing_status \in {"Uninitialized", "Finished"}
    /\ hist.resets < MaxResets
    /\ dec' = DecoderReset(dec)
    /\ call' = [IdleCall EXCEPT !.api = "reset"]
    /\ hist' = [hist EXCEPT !.resets = @ + 1, !.finish = FALSE,
                            !.errors = FALSE, !.reuse = 0, !.residual = FALSE,
                            !.consumed = Taken]
    /\ UNCHANGED <<input, rest, avail, rc>>

\* the caller installs the parameters of the stream, once per reset
CallSetParams ==
    /\ Idle
    /\ ~dec.params.set
    /\ \E p \in ParamChoices : Becomes(SetParams(Sys, p))
    /\ UNCHANGED <<input, rest, hist>>

CanProcess ==
    /\ Idle
    /\ rc.made
    /\ hist.errors => hist.reuse < MaxReuse

Process ==
    /\ CanProcess
    /\ Becomes(EnterProcessMode(Sys, "Finish"))
    /\ hist' = [hist EXCEPT !.finish = TRUE, !.fed = FALSE,
                   !.reuse = IF hist.errors THEN @ + 1 ELSE @]
    /\ UNCHANGED <<input, rest>>

ProcessStream ==
    /\ CanProcess
    /\ Becomes(EnterProcessMode(Sys, "Partial"))
    /\ hist' = [hist EXCEPT !.fed = FALSE,
                   !.reuse = IF hist.errors THEN @ + 1 ELSE @]
    /\ UNCHANGED <<input, rest>>

IsError(ret) == ret \in {"eof", "lz", "eos", "size"}

\* what a step of the call adds to the history
HistAfter(s) ==
    [hist EXCEPT
        !.errors = @ \/ (s.call.pc = "idle" /\ IsError(s.call.ret)),
        !.residual = @ \/ (call.pc = "step" /\ call.path = "residual"
                             /\ s.call.step.err = "none"),
        !.consumed = IF call.pc = "step" /\ s.call.step.err = "none"
                     THEN @ \o Take(StepBuf(Sys), s.call.step.pos)
                     ELSE @]

LoopHeadStep ==
    /\ call.pc = "loop"
    /\ Becomes(LoopHead(Sys))
    /\ UNCHANGED <<input, rest, hist>>

TryStep ==
    /\ call.pc = "try"
    /\ Becomes(TryProcessNext(Sys))
    /\ UNCHANGED <<input, rest, hist>>

AfterTryStep ==
    /\ call.pc = "tried"
    /\ Becomes(AfterTry(Sys))
    /\ UNCHANGED <<input, rest, hist>>

ProcessNextStep ==
    /\ call.pc = "step"
    /\ LET Commit(s) == Becomes(s) /\ hist' = HistAfter(s)
       IN Commit(ProcessNext(Sys))
    /\ UNCHANGED <<input, rest>>

EpilogueStep ==
    /\ call.pc = "end"
    /\ LET Leave(s) == Becomes(s) /\ hist' = HistAfter(s)
       IN Leave(Epilogue(Sys))
    /\ UNCHANGED <<input, rest>>

Next ==
    \/ Feed
    \/ NewRangeDecoder
    \/ Reset
    \/ CallSetParams
    \/ Process
    \/ ProcessStream
    \/ LoopHeadStep
    \/ TryStep
    \/ AfterTryStep
    \/ ProcessNextStep
    \/ EpilogueStep

Spec == Init /\ [][Next]_vars

\* the steps of a call in progress; a call runs on until it returns
CallSteps ==
    \/ LoopHeadStep
    \/ TryStep
    \/ AfterTryStep
    \/ ProcessNextStep
    \/ EpilogueStep

\* ------------------------------------------------------------ the header
\* four little-endian bytes as a u32
ReadU32LE(b) == <<(b[4] * 256) + b[3], (b[2] * 256) + b[1]>>

\* the u64 of eight little-endian bytes that are all 0xFF
AllOnes(b) == \A i \in 1..8 : b[i] = 255

\* a result of read_header that is an error
HeaderError(ret, pos, props) ==
    [ret |-> ret, pos |-> pos, invalid_properties |-> props,
     params |-> NoParams]

\* read_header, lines 71-124, after the props byte was accepted; dict_size
\* is a u32 and the unpacked size is kept as the eight bytes read (or the
\* value provided)
ReadAfterProps(stream, options) ==
    LET Sized(lc, lp, pb, dict_size, pos, unpacked_size) ==
            [ret |-> "Ok", pos |-> pos, invalid_properties |-> 0,
             params |-> [set |-> TRUE, lc |-> lc, lp |-> lp, pb |-> pb,
                         dict_size |-> dict_size,
                         unpacked_size |-> unpacked_size]]
        Size(lc, lp, pb, dict_size) ==
            IF options.how = "UseProvided"
            THEN Sized(lc, lp, pb, dict_size, 5, options.provided)
            ELSE IF Len(stream) < 13 THEN HeaderError("HeaderTooShort", 5, 0)
            ELSE IF options.how = "ReadHeaderButUseProvided"
            THEN Sized(lc, lp, pb, dict_size, 13, options.provided)
            ELSE IF AllOnes(SubSeq(stream, 6, 13))
            THEN Sized(lc, lp, pb, dict_size, 13,
                       [known |-> FALSE, bytes |-> << >>])
            ELSE Sized(lc, lp, pb, dict_size, 13,
                       [known |-> TRUE, bytes |-> SubSeq(stream, 6, 13)])
        Dict(lc, lp, pb, dict_size_provided) ==
            Size(lc, lp, pb,
                 IF Lt32(dict_size_provided, <<0, 4096>>)
                 THEN <<0, 4096>> ELSE dict_size_provided)
        Props(lc, pb1) ==
            IF Len(stream) < 5 THEN HeaderError("HeaderTooShort", 1, 0)
            ELSE Dict(lc, pb1 % 5, pb1 \div 5,
                      ReadU32LE(SubSeq(stream, 2, 5)))
    IN Props(stream[1] % 9, stream[1] \div 9)

\* read_header that lets props = 225 through
ReadHeaderWide(stream, options) ==
    IF Len(stream) < 1 THEN HeaderError("HeaderTooShort", 0, 0)
    ELSE IF stream[1] > 225
    THEN HeaderError("InvalidHeader", 1, stream[1])
    ELSE ReadAfterProps(stream, options)

\* LzmaParams::read_header on the bytes of stream; options is how the
\* unpacked size is obtained
ReadHeader(stream, options) ==
    IF Len(stream) < 1 THEN HeaderError("HeaderTooShort", 0, 0)
    ELSE IF stream[1] >= 225
    THEN HeaderError("InvalidHeader", 1, stream[1])
    ELSE ReadAfterProps(stream, options)

\* the headers read: every props byte, three dictionary sizes (below,
\* at and above 0x1000), the size field all ones or 5, cut short or not
HeaderLens == {0, 3, 9, 13}

Headers ==
    {Take(<<props>> \o dict \o size, n) :
        props \in 0..255,
        dict \in {<<0, 0, 0, 0>>, <<0, 16, 0, 0>>, <<0, 0, 1, 0>>},
        size \in {<<255, 255, 255, 255, 255, 255, 255, 255>>,
                  <<5, 0, 0, 0, 0, 0, 0, 0>>},
        n \in HeaderLens}

OptionChoices ==
    {[how |-> "ReadFromHeader",
      provided |-> [known |-> FALSE, bytes |-> << >>]],
     [how |-> "ReadHeaderButUseProvided",
      provided |-> [known |-> TRUE, bytes |-> <<7, 0, 0, 0, 0, 0, 0, 0>>]],
     [how |-> "UseProvided",
      provided |-> [known |-> FALSE, bytes |-> << >>]]}

HeaderInit ==
    /\ input \in Headers
    /\ rest = input
    /\ avail = << >>
    /\ dec = DecoderNew
    /\ rc = NoRangeDecoder
    /\ call = [api |-> "new"]
    /\ hist = [resets |-> 0]

\* the caller reads the header from the start of the stream
CallReadHeader ==
    /\ call.api = "new"
    /\ \E options \in OptionChoices :
          /\ call' = [api |-> "read_header", options |-> options,
                      result |-> ReadHeader(input, options)]
          /\ rest' = Drop(input, ReadHeader(input, options).pos)
    /\ UNCHANGED <<input, avail, dec, rc, hist>>

HeaderSpec == HeaderInit /\ [][CallReadHeader]_vars

\* ------------------------------------------------- the distance decoder
\* decode_distance on a decoder fresh from reset: the range decoder holds
\* the widest range and a code whose leading six bits run over every
\* pos_slot, with the least, a middle and the greatest continuation, and
\* the source holds all zeros, all ones or a mix.
DistanceCodes ==
    {<<(slot * 1024) + t, lo>> :
        slot \in 0..63, t \in {0, 512, 1023}, lo \in {0, 43690, 65534}}

DistanceStreams ==
    {<<0, 0, 0, 0, 0, 0>>, <<255, 255, 255, 255, 255, 255>>,
     <<165, 90, 60, 195, 15, 240>>}

\* the lengths handed to decode_distance: len_state 0, 2, 3 and 3
DistanceLengths == {0, 2, 3, 271}

DistanceInit ==
    /\ input \in DistanceStreams
    /\ rest = << >>
    /\ avail = input
    /\ dec = DecoderReset(DecoderNew)
    /\ \E code \in DistanceCodes :
          rc = [made |-> TRUE, range |-> <<65535, 65535>>, code |-> code]
    /\ call = [api |-> "new"]
    /\ hist = [resets |-> 1]

\* what decode_distance did, kept for the properties
DistanceCall(m, length) ==
    [api |-> "decode_distance", length |-> length, err |-> m.err,
     bits |-> m.bits, dist |-> m.dist, pos |-> m.pos]

\* one call of decode_distance with update = true
CallDecodeDistance ==
    /\ call.api = "new"
    /\ \E length \in DistanceLengths :
          LET Done(m) ==
                  /\ call' = DistanceCall(m, length)
                  /\ dec' = m.d
                  /\ rc' = [rc EXCEPT !.range = m.range, !.code = m.code]
                  /\ avail' = Drop(avail, m.pos)
          IN Done(DecodeDistance(Machine(dec, avail, rc.range, rc.code),
                                 length, TRUE))
    /\ UNCHANGED <<input, rest, hist>>

DistanceSpec == DistanceInit /\ [][CallDecodeDistance]_vars

\* -------------------------------------------------- the literal decoder
\* decode_literal on a decoder after reset whose output ends with a chosen
\* byte: the state is below 7, 7 or 11, rep[0] points at the last byte or
\* at the one before it, lc and lp are the least, the usual and the
\* greatest, and the code's leading eight bits run over every byte.
LiteralCodes == {<<(byte * 256) + 128, 0>> : byte \in 0..255}

LiteralLast == {0, 255, 170, 90}

LiteralStates == {0, 7, 11}

LiteralParams ==
    {Params(3, 0, 2, Unknown), Params(8, 4, 4, Unknown),
     Params(0, 0, 0, Unknown)}

LiteralOutputs ==
    {before \o <<last>> : before \in {<< >>, <<1, 2, 3>>},
                          last \in LiteralLast}

LiteralInit ==
    /\ input = <<0, 0, 0, 0>>
    /\ rest = << >>
    /\ avail = input
    /\ \E params \in LiteralParams, state \in LiteralStates,
          output \in LiteralOutputs, back \in {0, 1} :
          dec = [DecoderReset(DecoderNew) EXCEPT
                    !.params = params,
                    !.dict_size = params.dict_size,
                    !.state = state,
                    !.output = output,
                    !.rep = <<U32(back), Zero32, Zero32, Zero32>>]
    /\ \E code \in LiteralCodes :
          rc = [made |-> TRUE, range |-> <<65535, 65535>>, code |-> code]
    /\ call = [api |-> "new"]
    /\ hist = [resets |-> 1]

\* what decode_literal did, kept for the properties
LiteralCall(m) ==
    [api |-> "decode_literal", err |-> m.err, bits |-> m.bits,
     byte |-> m.val, pos |-> m.pos]

\* one call of decode_literal with update = true
CallDecodeLiteral ==
    /\ call.api = "new"
    /\ LET Done(m) ==
               /\ call' = LiteralCall(m)
               /\ dec' = m.d
               /\ rc' = [rc EXCEPT !.range = m.range, !.code = m.code]
               /\ avail' = Drop(avail, m.pos)
       IN Done(DecodeLiteral(Machine(dec, avail, rc.range, rc.code), TRUE))
    /\ UNCHANGED <<input, rest, hist>>

LiteralSpec == LiteralInit /\ [][CallDecodeLiteral]_vars

\* ------------------------------------------------- one probability cell
\* Any sequence of adaptive bits decoded with one cell of a decoder after
\* reset.  Before each bit the range decoder holds the least, a middle or
\* the greatest normal range and a code that decides the bit either way.
ProbCell == <<"is_match", "", 0, 0>>

ProbRanges == {<<256, 0>>, <<32768, 1>>, <<65535, 65535>>}

ProbInit ==
    /\ input = <<0>>
    /\ rest = << >>
    /\ avail = input
    /\ dec = DecoderReset(DecoderNew)
    /\ \E range \in ProbRanges :
          rc = [made |-> TRUE, range |-> range, code |-> Zero32]
    /\ call = [api |-> "new"]
    /\ hist = [resets |-> 1]

\* what decode_bit did, kept for the properties: the range and the cell
\* it started from, the bound it computed and the bit it returned
BitCall(m, range, before) ==
    [api |-> "decode_bit", range |-> range, before |-> before,
     bound |-> Bound(range, before), bit |-> m.bit, err |-> m.err]

\* one call of decode_bit with update = true on ProbCell
CallDecodeBit ==
    /\ \E range \in ProbRanges :
       \E code \in {Zero32, Sub32(range, <<0, 1>>)} :
          LET Done(m) ==
                  /\ call' = BitCall(m, range, Prob(dec, ProbCell))
                  /\ dec' = m.d
                  /\ rc' = [rc EXCEPT !.range = m.range, !.code = m.code]
          IN Done(DecodeBit(Machine(dec, avail, range, code), ProbCell,
                            TRUE))
    /\ UNCHANGED <<input, rest, avail, hist>>

ProbSpec == ProbInit /\ [][CallDecodeBit]_vars

\* ----------------------------------------------------------- properties
KnownSize == dec.params.set /\ dec.params.unpacked_size.known

UnpackedSize == dec.params.unpacked_size.size

ResidualLen == Len(dec.partial_input_buf)

\* the decoder fields a packet acts on
Core(d) ==
    [state |-> d.state, rep |-> d.rep, probs |-> d.probs,
     prob_fill |-> d.prob_fill, output |-> d.output,
     processing_status |-> d.processing_status]

\* the whole input was handed, chunk by chunk, to process_stream calls on
\* one decoder, and each of them returned normally
Chunked ==
    /\ Idle
    /\ call.api = "process_stream"
    /\ call.ret = "Ok"
    /\ rest = << >>
    /\ ~hist.fed
    /\ ~hist.finish
    /\ ~hist.errors
    /\ hist.resets = 1
    /\ dec.params.set

\* the decoder and the range decoder are as one process call on the whole
\* input leaves them
SameAsFinish ==
    LET f == FinishRun(input, dec.params)
    IN /\ Core(dec) = Core(f.dec)
       /\ rc.range = f.rc.range
       /\ rc.code = f.rc.code

\* one process call on the whole input returns success, and the input is
\* complete by its known size or by its end-of-stream marker
FinishAccepts ==
    LET f == FinishRun(input, dec.params)
    IN /\ f.call.ret = "Ok"
       /\ \/ dec.params.unpacked_size.known
          \/ f.dec.processing_status = "Finished"

\* C1 as stated: for any input and any split of it into chunks, one
\* process_stream call per chunk emits the same bytes and ends with the
\* same state, rep, probabilities, range, code and processing status as
\* one process call on the whole input.
C1_AnyInput == Chunked => SameAsFinish

\* C1: for any input on which one process call succeeds, with a known
\* unpacked size or with the end-of-stream marker decoded, and any split
\* of it into chunks, one process_stream call per chunk emits the same
\* bytes and ends with the same state, rep, probabilities, range, code
\* and processing status as that process call.
C1_AcceptedInput == (Chunked /\ FinishAccepts) => SameAsFinish

C1_Witness ==
    /\ Chunked
    /\ FinishAccepts
    /\ hist.residual
    /\ dec.processing_status = "Finished"
    /\ Len(dec.output) >= 5

\* C2: a speculative step, whether it succeeds or fails, changes no
\* decoder field, emits nothing, and leaves the live range decoder and the
\* stream alone; and between two committed steps the driver changes
\* nothing but the residual buffer, so a return for lack of input leaves
\* no packet partially applied.
C2_SpeculationHasNoEffect ==
    [][/\ call.pc = "try" => (dec' = dec /\ rc' = rc /\ avail' = avail)
       /\ call.pc \in {"loop", "tried"} =>
              (Core(dec') = Core(dec) /\ rc' = rc)]_vars

C2_Witness ==
    /\ Idle
    /\ call.via = "need_input"
    /\ call.try.err = "eof"
    /\ Len(call.try.bits) > 1
    /\ call.packets > 0

\* C3: from the same decoder state, range, code and bytes, a step with
\* update=false decodes the same bits, takes the same branch and reads as
\* many bytes as the step with update=true; and the real step that follows
\* a successful speculative step on the same bytes does not run out of
\* input.
C3_SameDecoding ==
    /\ call.pc \in {"try", "step"} =>
          LET m == Machine(dec, StepBuf(Sys), rc.range, rc.code)
              a == ProcessNextInner(m, FALSE)
              b == ProcessNextInner(m, TRUE)
          IN /\ a.bits = b.bits
             /\ a.kind = b.kind
             /\ a.pos = b.pos
             /\ (a.err = "eof") = (b.err = "eof")
    /\ (Len(call.try.bits) > 0 /\ call.try.err = "none"
            /\ Len(call.step.bits) > 0) =>
          /\ call.step.err # "eof"
          /\ call.step.bits = call.try.bits
          /\ call.step.pos = call.try.pos

C3_Witness ==
    /\ call.try.err = "none"
    /\ call.try.kind = "match"
    /\ call.step.kind = "match"
    /\ call.step.err = "none"
    /\ call.step.pos > 0
    /\ call.path = "residual"

\* C4: with a known unpacked size, process returns success only if the
\* output length equals unpacked_size, and when its loop ends with another
\* length it returns the size-mismatch error.
C4_SizeChecked ==
    (Idle /\ call.api = "process" /\ KnownSize) =>
        /\ call.ret = "Ok" => Len(dec.output) = UnpackedSize
        /\ (call.via = "end" /\ Len(dec.output) # UnpackedSize) =>
               call.ret = "size"

C4_Witness ==
    /\ Idle
    /\ call.api = "process"
    /\ KnownSize
    /\ call.ret = "size"
    /\ Len(dec.output) > UnpackedSize

\* C5: with an unknown unpacked size, process returns success only once
\* the end-of-stream marker was decoded (processing status Finished).
C5_MarkerMandatory ==
    (/\ Idle
     /\ call.api = "process"
     /\ dec.params.set
     /\ ~dec.params.unpacked_size.known
     /\ call.ret = "Ok") => dec.processing_status = "Finished"

\* C6: a process or process_stream call entered with the status Finished
\* and given further input returns an error, decodes no packet and emits
\* no byte.
C6_FinishedIsTerminal ==
    (/\ Idle
     /\ call.api \in {"process", "process_stream"}
     /\ call.status0 = "Finished"
     /\ call.in0 > 0) =>
        /\ IsError(call.ret)
        /\ call.packets = 0
        /\ Len(dec.output) = call.out0

C8_NeverPastSize ==
    KnownSize =>
        /\ Len(dec.output) <= UnpackedSize
        /\ (call.pc = "end" /\ call.brk = "size") =>
               Len(dec.output) = UnpackedSize

\* C8: with a known unpacked size the driver, in either mode, decodes a
\* packet only while the output is shorter than unpacked_size; the output
\* passes unpacked_size only by a match or rep match, and when the loop
\* stops because the size was reached the output length is at least
\* unpacked_size.
C8_StopsOnceReached ==
    [][KnownSize =>
          /\ Len(dec'.output) > Len(dec.output) =>
                /\ Len(dec.output) < UnpackedSize
                /\ Len(dec'.output) > UnpackedSize =>
                       call'.step.kind \in {"match", "rep_match"}
          /\ (call'.pc = "end" /\ call'.brk = "size") =>
                Len(dec'.output) >= UnpackedSize]_vars

C8_Witness ==
    /\ KnownSize
    /\ call.pc = "end"
    /\ call.brk = "size"
    /\ call.mode = "Partial"
    /\ Len(dec.output) > UnpackedSize

\* C9: process_stream returns normally for lack of input only when the
\* speculative step ran out of buffered bytes; a speculative step that
\* fails for another reason is not turned into a normal return.
C9_OnlyOutOfInput ==
    (Idle /\ call.via = "need_input") => call.try.err = "eof"

\* C10: at every point of every sequence of process and process_stream
\* calls the residual buffer holds at most MAX_REQUIRED_INPUT bytes.
C10_ResidualBounded == ResidualLen <= MAX_REQUIRED_INPUT

C10_Witness ==
    /\ ResidualLen = MAX_REQUIRED_INPUT
    /\ call.pc = "step"
    /\ call.path = "residual"

\* the step of this transition was committed: it ran and returned no error
Committed == call.pc = "step" /\ call'.step.err = "none"

\* the state the table of the packet kinds gives
StateByTable(state, kind) ==
    CASE kind = "literal" ->
             IF state < 4 THEN 0
             ELSE IF state < 10 THEN state - 3 ELSE state - 6
      [] kind = "short_rep" -> IF state < 7 THEN 9 ELSE 11
      [] kind = "rep_match" -> IF state < 7 THEN 8 ELSE 11
      [] kind = "match"     -> IF state < 7 THEN 7 ELSE 10
      [] OTHER              -> 12

\* C11: every committed packet is exactly one of literal, short rep, rep
\* match or new-distance match, and it takes state to the value the table
\* gives for its kind; state is in 0..11 in every reachable state.
C11_StateTable ==
    /\ [](dec.state \in 0..11)
    /\ [][Committed =>
             /\ call'.step.kind \in
                    {"literal", "short_rep", "rep_match", "match"}
             /\ dec'.state = StateByTable(dec.state, call'.step.kind)]_vars

\* a literal was committed after a rep match or a short rep
C11_Witness ==
    /\ call.pc = "loop"
    /\ call.step.kind = "literal"
    /\ call.step.err = "none"
    /\ dec.state = 5

\* no entry of rep is the end-of-stream distance
NoSentinel(d) == \A i \in 1..4 : d.rep[i] # EOS_DISTANCE

\* C12: while the processing status is Continue, after any sequence of
\* committed packets since the reset no entry of rep is 0xFFFFFFFF, and a
\* committed packet that leaves the status Continue never puts it there.
C12_NoSentinelInRep ==
    /\ []((dec.processing_status = "Continue" /\ ~hist.errors) =>
             NoSentinel(dec))
    /\ [][(Committed /\ dec'.processing_status = "Continue"
             /\ NoSentinel(dec)) => NoSentinel(dec')]_vars

\* a new-distance match was committed after another match, and decoding
\* goes on
C12_Witness ==
    /\ call.pc = "loop"
    /\ call.step.kind = "match"
    /\ call.step.err = "none"
    /\ dec.processing_status = "Continue"
    /\ ~hist.errors
    /\ dec.rep[1] # dec.rep[2]
    /\ dec.rep[2] # Zero32

\* range is at least 0x0100_0000
AtLeastTop(range) == range[1] >= 256

\* one adaptive bit decoded from range with the probability p and the
\* code that decides it as bit
BitFrom(range, p, bit) ==
    DecodeBit(Machine(SetProb(DecoderReset(DecoderNew),
                              <<"is_match", "", 0, 0>>, p),
                      <<0>>, range,
                      IF bit = 0 THEN Zero32 ELSE Sub32(range, <<0, 1>>)),
              <<"is_match", "", 0, 0>>, TRUE)

\* the least and the greatest probability the adaptation can reach from
\* 0x400
ProbLeast == 31
ProbMost == 2017

\* C13: range is at least 0x0100_0000 when the range decoder is made and
\* after every bit a step decodes, adaptive or direct, so after every
\* packet; every probability cell written since the reset holds a value
\* from 31 to 2017, and with either extreme one shift restores the
\* least and the greatest normal range.
C13_RangeNormal ==
    /\ rc.made => AtLeastTop(rc.range)
    /\ call.try.normal /\ call.step.normal
    /\ \A k \in DOMAIN dec.probs : dec.probs[k] \in ProbLeast..ProbMost
    /\ \A range \in {<<256, 0>>, <<65535, 65535>>} :
          \A p \in {ProbLeast, ProbMost} : \A bit \in {0, 1} :
             /\ BitFrom(range, p, bit).bit = bit
             /\ BitFrom(range, p, bit).normal

\* a committed step decoded the 26 direct bits of the marker among its
\* adaptive bits and read input to normalize
C13_Witness ==
    /\ call.pc = "end"
    /\ call.step.err = "none"
    /\ call.step.eos
    /\ call.step.pos > 2
    /\ Len(call.step.bits) > 30
    /\ AtLeastTop(rc.range)

Decoding == call.pc \in {"loop", "try", "tried", "step", "end"}

\* C14: no packet is decoded before a reset followed by a successful
\* set_params: set_params, process and process_stream on an Uninitialized
\* decoder panic, process and process_stream on a decoder without
\* parameters panic, and reset leaves the decoder without parameters.
C14_Lifecycle ==
    /\ (/\ dec.processing_status = "Uninitialized"
        /\ call.api \in {"set_params", "process", "process_stream"})
          => call.pc = "panicked"
    /\ (~dec.params.set /\ call.api \in {"process", "process_stream"})
          => call.pc = "panicked"
    /\ call.api = "reset"
          => ~dec.params.set /\ dec.processing_status = "Continue"
    /\ (Decoding \/ call.packets > 0 \/ Len(dec.output) > 0)
          => /\ dec.params.set
             /\ dec.processing_status # "Uninitialized"
             /\ hist.resets > 0

\* a decoder that had decoded a stream was reset, and process was called
\* on it before set_params
C14_Witness ==
    /\ call.pc = "panicked"
    /\ call.api = "process"
    /\ hist.resets = 2
    /\ dec.processing_status = "Continue"
    /\ ~dec.params.set

\* set_params returned in this transition
SetParamsReturned ==
    call.pc = "idle" /\ call'.pc = "idle" /\ call'.api = "set_params"
       /\ call'.arg.set

\* the rows of literal probabilities the argument of the call asks for
RowsAsked(c) == Pow2(c.arg.lc + c.arg.lp)

\* C15: set_params with 1 << (lc + lp) greater than the capacity returns
\* ProbabilitiesBufferTooSmall with needed = 1 << (lc + lp) and available
\* = the capacity and leaves the decoder as it was; with 1 << (lc + lp)
\* at most the capacity it succeeds and installs the parameters.
C15_TooManyRows ==
    [][SetParamsReturned =>
          IF RowsAsked(call') > PROBS_MEM_LIMIT
          THEN /\ call'.ret = "ProbabilitiesBufferTooSmall"
               /\ call'.needed = RowsAsked(call')
               /\ call'.available = PROBS_MEM_LIMIT
               /\ dec' = dec
          ELSE /\ call'.ret = "Ok"
               /\ dec'.params = call'.arg
               /\ dec'.dict_size = call'.arg.dict_size]_vars

\* set_params refused lc = 4 on a decoder whose dictionary was never
\* sized
C15_Witness ==
    /\ call.api = "set_params"
    /\ call.ret = "ProbabilitiesBufferTooSmall"
    /\ call.needed = 16
    /\ call.available = 8
    /\ ~dec.params.set
    /\ dec.dict_size = 0

HeaderRead == call.api = "read_header" /\ Len(input) > 0

\* C16: read_header accepts the props byte exactly when it is below 225;
\* the parameters it then returns have lc = props % 9, lp = (props / 9) %
\* 5 and pb = props / 45, so lc <= 8, lp <= 4, pb <= 4 and (pb * 5 + lp)
\* * 9 + lc = props; for props from 225 up it returns InvalidHeader with
\* the props value.
C16_PropsDecoded ==
    HeaderRead =>
       LET props == input[1]
           r == call.result
       IN IF props >= 225
          THEN r.ret = "InvalidHeader" /\ r.invalid_properties = props
          ELSE /\ r.ret \in {"Ok", "HeaderTooShort"}
               /\ r.ret = "Ok" =>
                     /\ r.params.lc = props % 9
                     /\ r.params.lp = (props \div 9) % 5
                     /\ r.params.pb = props \div 45
                     /\ r.params.lc <= 8
                     /\ r.params.lp <= 4
                     /\ r.params.pb <= 4
                     /\ (((r.params.pb * 5) + r.params.lp) * 9)
                           + r.params.lc = props
               /\ r.ret = "HeaderTooShort" =>
                     Len(input) < (IF call.options.how = "UseProvided"
                                   THEN 5 ELSE 13)

\* the greatest props byte was read from a whole header
C16_Witness ==
    /\ HeaderRead
    /\ input[1] = 224
    /\ call.result.ret = "Ok"
    /\ call.result.params.lc = 8
    /\ call.result.params.lp = 4
    /\ call.result.params.pb = 4
    /\ call.options.how = "ReadFromHeader"

\* a process or process_stream call has returned
Returned == Idle /\ call.api \in {"process", "process_stream"}

\* the bytes that committed steps (and the construction of the range
\* decoder) consumed, followed by the residual buffer, are the bytes read
\* from the stream
Accounted == hist.consumed \o dec.partial_input_buf = Taken

\* a committed step takes its bytes from the front of what it ran on and
\* leaves the rest, in order, at the front of the residual buffer or in
\* the stream
SuffixKept ==
    [][Committed =>
          IF call.path = "residual"
          THEN /\ dec'.partial_input_buf =
                     SubSeq(dec.partial_input_buf, call'.step.pos + 1,
                            Len(dec.partial_input_buf))
               /\ avail' = avail
          ELSE /\ dec'.partial_input_buf = << >>
               /\ avail' = SubSeq(avail, call'.step.pos + 1, Len(avail))]_vars

WorstDecoder ==
    [DecoderReset(DecoderNew) EXCEPT
        !.params = Params(3, 0, 2, Unknown),
        !.dict_size = 4096,
        !.prob_fill = ProbLeast,
        !.probs = (<<"is_match", "", 0, 0>> :> ProbMost)
                  @@ (<<"len_decoder", "choice", 0, 0>> :> ProbMost)
                  @@ (<<"len_decoder", "choice2", 0, 0>> :> ProbMost)
                  @@ (<<"pos_slot_decoder", "", 3, 1>> :> ProbMost)
                  @@ (<<"pos_slot_decoder", "", 3, 3>> :> ProbMost)
                  @@ (<<"pos_slot_decoder", "", 3, 7>> :> ProbMost)
                  @@ (<<"pos_slot_decoder", "", 3, 15>> :> ProbMost)
                  @@ (<<"pos_slot_decoder", "", 3, 31>> :> ProbMost)]

\* the code and the input that make that packet: a new-distance match
\* with the longest length code, distance slot 62, 26 direct bits and 4
\* align bits
WorstCode == <<252, 12035>>

WorstBytes ==
    <<30, 135, 240, 0, 0, 0, 174, 227, 222, 253, 170, 52, 213, 0, 0, 0, 0,
      0, 0, 0>>

\* that packet decoded from the least normal range, on the first n bytes
WorstStep(n) ==
    ProcessNextInner(
        Machine(WorstDecoder, Take(WorstBytes, n), <<256, 0>>, WorstCode),
        TRUE)

\* C18: no step, speculative or real, reads more than MAX_REQUIRED_INPUT
\* bytes, and a real step run on a full residual buffer never fails for
\* lack of input; the longest packet with the least likely bit at every
\* adaptive bit, from the least normal range, reads exactly that many.
C18_StepInputBounded ==
    /\ call.try.pos <= MAX_REQUIRED_INPUT
    /\ call.step.pos <= MAX_REQUIRED_INPUT
    /\ (call.path = "residual" /\ call.step.err = "eof")
          => Len(dec.partial_input_buf) < MAX_REQUIRED_INPUT
    /\ LET Fits(w) == /\ Len(w.bits) = 48
                       /\ w.pos <= MAX_REQUIRED_INPUT
                       /\ w.err # "eof"
       IN Fits(WorstStep(MAX_REQUIRED_INPUT))

\* a real step ran on a full residual buffer without a trial, and the
\* longest packet does need all of MAX_REQUIRED_INPUT bytes
C18_Witness ==
    /\ call.pc = "loop"
    /\ call.path = "residual"
    /\ call.mode = "Partial"
    /\ call.try = NoRun
    /\ call.step.err = "none"
    /\ call.step.pos > 0
    /\ WorstStep(MAX_REQUIRED_INPUT).pos = MAX_REQUIRED_INPUT
    /\ WorstStep(MAX_REQUIRED_INPUT - 1).err = "eof"

\* the index a repeated-distance packet chose, from its decoded bits:
\* is_match, is_rep, is_rep_g0, is_rep_g1, is_rep_g2
RepIdx(bits) ==
    IF bits[3] = 0 THEN 0
    ELSE IF bits[4] = 0 THEN 1
    ELSE IF bits[5] = 0 THEN 2
    ELSE 3

\* rep with the entry i moved to the front (entries counted from 0)
MoveToFront(rep, i) ==
    [j \in 1..4 |-> IF j = 1 THEN rep[i + 1]
                    ELSE IF j <= i + 1 THEN rep[j - 1]
                    ELSE rep[j]]

SameRep(a, b) == \A j \in 1..4 : a[j] = b[j]

\* C19: a committed rep-i match moves rep[i] to the front of rep, a
\* committed match with a new distance d pushes d at the front and drops
\* rep[3], and a literal, a short rep and a rep-0 match leave rep as it was.
C19_RepMoveToFront ==
    [][Committed =>
          LET After(run) ==
                  CASE run.kind = "rep_match" ->
                           /\ run.bits[1] = 1 /\ run.bits[2] = 1
                           /\ SameRep(dec'.rep,
                                      MoveToFront(dec.rep, RepIdx(run.bits)))
                           /\ RepIdx(run.bits) = 0 => dec'.rep = dec.rep
                    [] run.kind = "match" ->
                           /\ run.bits[1] = 1 /\ run.bits[2] = 0
                           /\ dec'.rep = <<run.dist, dec.rep[1], dec.rep[2],
                                           dec.rep[3]>>
                    [] OTHER -> dec'.rep = dec.rep
          IN After(call'.step)]_vars

\* a rep-2 or rep-3 match was committed, and the three entries it moved
\* differ from each other
C19_Witness ==
    /\ call.pc = "loop"
    /\ call.step.kind = "rep_match"
    /\ call.step.err = "none"
    /\ RepIdx(call.step.bits) >= 2
    /\ dec.rep[1] # dec.rep[2]
    /\ dec.rep[1] # dec.rep[3]
    /\ dec.rep[2] # dec.rep[3]

\* the n bits of a bit tree that start at from, as the number they code
RECURSIVE BitsValue(_, _, _)
BitsValue(bits, from, n) ==
    IF n = 0 THEN 0
    ELSE (2 * BitsValue(bits, from, n - 1)) + bits[from + n - 1]

\* where the length decoder's choice bit stands among a packet's bits
ChoiceAt(run) ==
    IF run.kind = "match" THEN 3
    ELSE IF RepIdx(run.bits) <= 1 THEN 5 ELSE 6

\* the tree the length came from and the length the decoder returned
LenTier(run) ==
    IF run.bits[ChoiceAt(run)] = 0 THEN "low"
    ELSE IF run.bits[ChoiceAt(run) + 1] = 0 THEN "mid" ELSE "high"

LenCoded(run) ==
    CASE LenTier(run) = "low" -> BitsValue(run.bits, ChoiceAt(run) + 1, 3)
      [] LenTier(run) = "mid" ->
             8 + BitsValue(run.bits, ChoiceAt(run) + 2, 3)
      [] OTHER -> 16 + BitsValue(run.bits, ChoiceAt(run) + 2, 8)

\* how a committed match that copies grew the output by n bytes
MatchGrew(run, n) ==
    /\ n = LenCoded(run) + 2
    /\ LenTier(run) = "low" => LenCoded(run) \in 0..7
    /\ LenTier(run) = "mid" => LenCoded(run) \in 8..15
    /\ LenTier(run) = "high" => LenCoded(run) \in 16..271
    /\ n \in 2..273

\* the length decoder run on a fresh decoder from the widest range, with
\* code in the decoder's register and every byte of the source equal to byte
LenOf(code, byte) ==
    LenDecode(Machine(DecoderReset(DecoderNew), <<byte, byte, byte, byte>>,
                      <<65535, 65535>>, code),
              "rep_len_decoder", 0, TRUE)

\* the least and the greatest length of each tree are decoded as such
LenExtremes ==
    LET Is(m, tier, len) ==
            /\ m.err = "none"
            /\ LenTier([kind |-> "match", bits |-> <<1, 0>> \o m.bits]) = tier
            /\ m.val = len
    IN /\ Is(LenOf(<<0, 0>>, 0), "low", 0)
       /\ Is(LenOf(<<30802, 0>>, 0), "low", 7)
       /\ Is(LenOf(<<33423, 0>>, 0), "mid", 8)
       /\ Is(LenOf(<<48824, 0>>, 0), "mid", 15)
       /\ Is(LenOf(<<49152, 0>>, 0), "high", 16)
       /\ Is(LenOf(<<65535, 65534>>, 255), "high", 271)

\* the original reading of C20: every committed rep match and every
\* committed match with a new distance appends 2 to 273 bytes, a literal
\* and a short rep one byte
C20_EveryMatchAppends ==
    []LenExtremes /\ [][Committed =>
          LET Grew(run, n) ==
                  IF run.kind \in {"rep_match", "match"}
                  THEN MatchGrew(run, n)
                  ELSE n = 1
          IN Grew(call'.step, Len(dec'.output) - Len(dec.output))]_vars

\* C20: every committed rep match, and every committed match with a new
\* distance other than the end-of-stream marker, appends the length its
\* length decoder returned plus 2, which is 2 to 273 bytes: 0 to 7 from the
\* low tree, 8 to 15 from the mid tree, 16 to 271 from the high tree; a
\* literal and a short rep append one byte; the marker appends nothing.
C20_MatchLengths ==
    []LenExtremes /\ [][Committed =>
          LET Grew(run, n) ==
                  IF run.eos THEN n = 0
                  ELSE IF run.kind \in {"rep_match", "match"}
                  THEN MatchGrew(run, n)
                  ELSE n = 1
          IN Grew(call'.step, Len(dec'.output) - Len(dec.output))]_vars

\* a match whose length came from the high tree was committed and copied
C20_Witness ==
    /\ call.pc = "loop"
    /\ call.step.kind \in {"rep_match", "match"}
    /\ call.step.err = "none"
    /\ ~call.step.eos
    /\ LenTier(call.step) = "high"
    /\ Len(dec.output) > 18

\* the n bits that start at from, least significant first, as a number
RECURSIVE ReverseValue(_, _, _)
ReverseValue(bits, from, n) ==
    IF n = 0 THEN 0
    ELSE bits[from] + (2 * ReverseValue(bits, from + 1, n - 1))

\* v shifted left by n bits, by doubling
RECURSIVE Doubled(_, _)
Doubled(v, n) == IF n = 0 THEN v ELSE Doubled(Add32(v, v), n - 1)

\* the pos_slot a decode_distance call decoded: its first six bits
SlotOf(bits) == BitsValue(bits, 1, 6)

NumDirectBits(pos_slot) == (pos_slot \div 2) - 1

\* (2 | (pos_slot & 1)) << num_direct_bits
BaseClaimed(pos_slot) ==
    Doubled(U32(2 + (pos_slot % 2)), NumDirectBits(pos_slot))

\* what the bits after the pos_slot add to the base: a reverse bit tree
\* below slot 14, direct bits and the four align bits from there on
ExtraOf(bits, pos_slot) ==
    IF pos_slot < 14
    THEN ReverseValue(bits, 7, NumDirectBits(pos_slot))
    ELSE (BitsValue(bits, 7, NumDirectBits(pos_slot) - 4) * 16)
           + ReverseValue(bits, 3 + NumDirectBits(pos_slot), 4)

DistanceDecoded == call.api = "decode_distance" /\ call.err = "none"

\* C21: a distance decoded for a pos_slot below 4 is the pos_slot; for a
\* pos_slot from 4 to 63 it is (2 | (pos_slot & 1)) << num_direct_bits,
\* with num_direct_bits = (pos_slot >> 1) - 1, plus the value of the
\* num_direct_bits bits that follow the pos_slot.
C21_DistanceBase ==
    DistanceDecoded =>
        LET Right(pos_slot) ==
                IF pos_slot < 4
                THEN call.dist = U32(pos_slot) /\ Len(call.bits) = 6
                ELSE /\ Len(call.bits) = 6 + NumDirectBits(pos_slot)
                     /\ call.dist = Add32(BaseClaimed(pos_slot),
                                          U32(ExtraOf(call.bits, pos_slot)))
        IN Right(SlotOf(call.bits))

\* the greatest pos_slot was decoded, with the greatest distance
C21_Witness ==
    /\ DistanceDecoded
    /\ SlotOf(call.bits) = 63
    /\ call.dist = <<65535, 65535>>

\* the indices of the cells of an array that were written since the reset
Written(d, array) ==
    {k[4] : k \in {x \in DOMAIN d.probs : x[1] = array}}

\* base - pos_slot, the offset handed to the reverse bit tree
OffsetClaimed(pos_slot) == ToInt(BaseClaimed(pos_slot)) - pos_slot

\* C22: for every pos_slot from 4 to 13 the offset base - pos_slot is not
\* negative, and the reverse bit tree decodes num_direct_bits bits in cells
\* of pos_decoders from offset + 1 on, all of them within 1..114; no other
\* pos_slot touches pos_decoders.
C22_PosDecodersInBounds ==
    /\ \A pos_slot \in 4..13 :
          /\ OffsetClaimed(pos_slot) >= 0
          /\ OffsetClaimed(pos_slot) + Pow2(NumDirectBits(pos_slot)) - 1
                <= 114
    /\ DistanceDecoded =>
          LET Used(pos_slot, cells) ==
                  IF pos_slot \in 4..13
                  THEN /\ Cardinality(cells) = NumDirectBits(pos_slot)
                       /\ OffsetClaimed(pos_slot) + 1 \in cells
                       /\ \A c \in cells :
                             /\ c > OffsetClaimed(pos_slot)
                             /\ c < OffsetClaimed(pos_slot)
                                      + Pow2(NumDirectBits(pos_slot))
                             /\ c \in 1..114
                  ELSE cells = {}
          IN Used(SlotOf(call.bits), Written(dec, "pos_decoders"))

\* pos_slot 13 was decoded with every bit of its reverse tree set, which
\* reads the last cell of pos_decoders
C22_Witness ==
    /\ DistanceDecoded
    /\ SlotOf(call.bits) = 13
    /\ 114 \in Written(dec, "pos_decoders")

\* the byte the matched loop compares with: the one rep[0] + 1 back
MatchByte(d) == LastN(d, Inc32(d.rep[1]))

\* bit i, from 1 for the most significant, of a byte
BitOf(byte, i) == (byte \div Pow2(8 - i)) % 2

\* result before the i-th bit of a literal: a leading 1 and i - 1 bits
ResultAt(bits, i) == Pow2(i - 1) + BitsValue(bits, 1, i - 1)

\* whether the i-th bit of a literal is decoded in the matched loop: the
\* state is 7 or more and no earlier bit differed from the match byte
InMatched(d, bits, i) ==
    /\ d.state >= 7
    /\ \A j \in 1..(i - 1) : bits[j] = BitOf(MatchByte(d), j)

\* the cell the i-th bit of a literal is decoded with
CellAt(d, bits, i) ==
    IF InMatched(d, bits, i)
    THEN ((1 + BitOf(MatchByte(d), i)) * 256) + ResultAt(bits, i)
    ELSE ResultAt(bits, i)

LiteralDecoded == call.api = "decode_literal" /\ call.err = "none"

\* C23: decode_literal decodes eight adaptive bits; a bit is decoded in
\* the cell ((1 + match_bit) << 8) + result while the state is 7 or more
\* and every earlier bit equalled its match bit, and in the cell result
\* otherwise; result ends in 0x100..0x1FF, the byte is result & 0xFF, and
\* every cell used is below 0x300, in the row lit_state.
C23_LiteralBits ==
    LiteralDecoded =>
        /\ Len(call.bits) = 8
        /\ ResultAt(call.bits, 9) \in 256..511
        /\ call.byte = ResultAt(call.bits, 9) % 256
        /\ Written(dec, "literal_probs")
              = {CellAt(dec, call.bits, i) : i \in 1..8}
        /\ \A c \in Written(dec, "literal_probs") : c < 768
        /\ \A k \in DOMAIN dec.probs :
              k = <<"literal_probs", "", LitState(dec), k[4]>>

\* a literal in state 7 or more whose first three bits equal the match
\* byte's and whose fourth differs: three matched cells, one mismatch and
\* four plain cells
C23_Witness ==
    /\ LiteralDecoded
    /\ dec.state >= 7
    /\ InMatched(dec, call.bits, 4)
    /\ call.bits[4] # BitOf(MatchByte(dec), 4)
    /\ call.bits[5] # BitOf(MatchByte(dec), 5)
    /\ Cardinality({c \in Written(dec, "literal_probs") : c < 256}) = 4

\* a | b
BitOr(a, b) == Xor(a, b) + BitAnd(a, b)

\* whether the cell k lies inside the array it names
CellInBounds(k) ==
    CASE k[1] \in {"is_match", "is_rep_0long"} -> k[4] \in 0..191
      [] k[1] \in {"is_rep", "is_rep_g0", "is_rep_g1", "is_rep_g2"} ->
             k[4] \in 0..11
      [] k[1] = "literal_probs" ->
             k[3] \in 0..(PROBS_MEM_LIMIT - 1) /\ k[4] \in 1..767
      [] k[1] \in {"len_decoder", "rep_len_decoder"} ->
             CASE k[2] \in {"choice", "choice2"} -> k[4] = 0
               [] k[2] \in {"low_coder", "mid_coder"} ->
                      k[3] \in 0..15 /\ k[4] \in 1..7
               [] k[2] = "high_coder" -> k[4] \in 1..255
               [] OTHER -> FALSE
      [] k[1] = "pos_slot_decoder" -> k[3] \in 0..3 /\ k[4] \in 1..63
      [] k[1] = "align_decoder" -> k[4] \in 1..15
      [] k[1] = "pos_decoders" -> k[4] \in 1..114
      [] OTHER -> FALSE

\* a decoder with the given parameters, in the given state, whose output
\* holds len bytes equal to byte
Holding(lc, lp, pb, state, len, byte) ==
    [params |-> [lc |-> lc, lp |-> lp, pb |-> pb], state |-> state,
     output |-> [i \in 1..len |-> byte]]

\* the context indices for every lc, lp, pb, state and output length
ContextsInBounds ==
    \A lc \in 0..8, lp \in 0..4, pb \in 0..4 :
        \A state \in {0, 6, 7, 11}, len \in 0..17,
           byte \in {0, 1, 127, 128, 255} :
            LET Fine(d) ==
                    /\ PosState(d) < 16
                    /\ (state * 16) + PosState(d) <= 191
                    /\ (state * 16) + PosState(d)
                          = BitOr(state * 16, PosState(d))
                    /\ LitState(d) < Pow2(lc + lp)
                    /\ Pow2(lc + lp) <= PROBS_MEM_LIMIT
                          => LitState(d) < PROBS_MEM_LIMIT
            IN Fine(Holding(lc, lp, pb, state, len, byte))

\* C24: every probability cell a step uses lies inside its array: is_match
\* and is_rep_0long at (state << 4) + pos_state, at most 191 and equal to
\* (state << 4) | pos_state, the low and mid length coders at a pos_state
\* below 16, the literal probabilities at a lit_state below 1 << (lc + lp),
\* which is within the capacity set_params accepted.
C24_ContextsInBounds ==
    /\ [](ContextsInBounds /\ \A k \in DOMAIN dec.probs : CellInBounds(k))
    /\ [][Committed =>
             /\ <<"is_match", "", 0, (dec.state * 16) + PosState(dec)>>
                   \in DOMAIN dec'.probs
             /\ (dec.state * 16) + PosState(dec)
                   = BitOr(dec.state * 16, PosState(dec))
             /\ call'.step.kind = "literal" =>
                   /\ LitState(dec) < Pow2(dec.params.lc + dec.params.lp)
                   /\ \E k \in DOMAIN dec'.probs :
                         k[1] = "literal_probs" /\ k[3] = LitState(dec)]_vars

\* with pb = 4 and lp = 2, a literal was committed in a row other than
\* the first and a match chose a length sub-coder above the fourth
C24_Witness ==
    /\ dec.params.set
    /\ dec.params.pb = 4
    /\ \E k \in DOMAIN dec.probs : k[1] = "literal_probs" /\ k[3] > 0
    /\ \E k \in DOMAIN dec.probs :
          k[2] \in {"low_coder", "mid_coder"} /\ k[3] > 3

\* C25: after reset a probability cell stays within 31..2017 under any
\* sequence of adaptive bits, so strictly between 0 and 0x800; neither
\* 0x800 - p nor p - (p >> 5) goes below zero, the new value fits the
\* 16-bit cell, and bound = (range >> 11) * p fits 32 bits.
C25_ProbWithinBounds ==
    /\ Prob(dec, ProbCell) \in ProbLeast..ProbMost
    /\ Prob(dec, ProbCell) > 0 /\ Prob(dec, ProbCell) < 2048
    /\ call.api = "decode_bit" =>
          /\ call.err = "none"
          /\ 2048 - call.before >= 0
          /\ call.before - (call.before \div 32) >= 0
          /\ Prob(dec, ProbCell)
                = IF call.bit = 0 THEN ProbUp(call.before)
                  ELSE ProbDown(call.before)
          /\ Prob(dec, ProbCell) < Half
          /\ call.bound[1] < Half
          /\ Lt32(call.bound, call.range)
          /\ Lt32(Zero32, call.bound)

\* a 0 bit was decoded from the greatest range with the cell at its
\* greatest value, which leaves the cell where it was
C25_Witness ==
    /\ call.api = "decode_bit"
    /\ call.range = <<65535, 65535>>
    /\ call.before = ProbMost
    /\ call.bit = 0
    /\ Prob(dec, ProbCell) = ProbMost

\* A call in progress runs on until it returns.  While a call is in
\* progress its steps are the only enabled actions and each of them changes
\* call.pc, so CallSteps is enabled exactly when Decoding holds, and weak
\* fairness of CallSteps is the formula below.
CallRuns == []<>(~Decoding) \/ []<><<CallSteps>>_vars

LiveSpec == Init /\ [][Next]_vars /\ CallRuns

\* C26: every process and process_stream call returns; the real step of
\* an iteration either fails and returns, ends the loop, or commits one
\* packet and starts the next iteration, and a committed packet either is
\* the end-of-stream marker or makes the output longer.
C26_CallsTerminate ==
    /\ Decoding ~> ~Decoding
    /\ [][Decoding => call'.pc # call.pc]_vars
    /\ [][call.pc = "step" =>
             \/ call'.pc = "idle" /\ call'.step.err # "none"
             \/ call'.pc = "end" /\ call'.step.err = "none"
             \/ /\ call'.pc = "loop"
                /\ call'.step.err = "none"
                /\ call'.step.kind # "none"]_vars
    /\ [][Committed =>
             \/ call'.step.eos /\ call'.pc = "end"
             \/ Len(dec'.output) > Len(dec.output)]_vars

\* a call committed at least three packets and returned
C26_Witness ==
    /\ Idle
    /\ call.api \in {"process", "process_stream"}
    /\ call.ret = "Ok"
    /\ Len(dec.output) >= call.out0 + 3
====
